---- MODULE Spec2Model ----
(***************************************************************************)
(* Model of bip/hexrays/cnode.py: the CNode class, the registry            *)
(* _citem2cnode, the decorators addCNodeMethod and buildCNode, and the     *)
(* node operations GetCNode, _createChild, parent, has_parent, cfunc,      *)
(* closest_ea and ignore_cast.                                             *)
(*                                                                         *)
(* Python classes live in one arena `classes` (a class object is its       *)
(* index); a class is a record of its __name__, __bases__ and __dict__.    *)
(* Class names are sequences of characters so that str.replace is          *)
(* computed, not assumed.  CNode objects live in the arena `nodes`.        *)
(* is_handling_type is not part of cnode.py: its answers are the state     *)
(* function `handles` (op |-> the classes that answer True for that op).   *)
(***************************************************************************)
EXTENDS Integers, Sequences, FiniteSets, TLC

VARIABLES classes, _citem2cnode, _cnodeMethods, globals, handles, nodes, created, ret

vars == <<classes, _citem2cnode, _cnodeMethods, globals, handles, nodes, created, ret>>

(***************************** bounds **************************************)
NumUser == 2
MaxBases == 2
MaxReg == 1
MaxNodes == 3

(***************************** strings *************************************)
sHxC == <<"H", "x", "C">>
sCNode == <<"C", "N", "o", "d", "e">>
sItem == <<"I", "t", "e", "m">>
sExpr == <<"E", "x", "p", "r">>
sStmt == <<"S", "t", "m", "t">>
sCast == <<"C", "a", "s", "t">>
sVar == <<"V", "a", "r">>
sObject == <<"o", "b", "j", "e", "c", "t">>
sAbstractCItem == <<"A", "b", "s", "t", "r", "a", "c", "t", "C">> \o sItem

IsPrefix(p, s) == Len(s) >= Len(p) /\ SubSeq(s, 1, Len(p)) = p

\* str.replace(old, new): every non-overlapping occurrence, left to right
RECURSIVE Replace(_, _, _)
Replace(s, old, new) ==
    IF s = <<>> THEN <<>>
    ELSE IF IsPrefix(old, s)
         THEN new \o Replace(SubSeq(s, Len(old) + 1, Len(s)), old, new)
         ELSE <<Head(s)>> \o Replace(Tail(s), old, new)

(***************************** attribute values ****************************)
AttrNames == {"__module__", "__doc__", "meth", "lvar", "lvar_name", "ignore_cast"}

Val(k, s, c) == [k |-> k, s |-> s, c |-> c]
Absent == Val("absent", "", <<>>)
NoAttrs == [a \in AttrNames |-> Absent]

\* the three functions decorated at module level
fn_lvar == Val("property", "lvar", <<>>)
fn_lvar_name == Val("property", "lvar_name", <<>>)
fn_ignore_cast == Val("property", "ignore_cast", sCNode \o sExpr \o sCast)
\* CNode.ignore_cast, the default implementation
fn_ignore_cast_default == Val("property", "ignore_cast", sCNode)

\* functions a caller may hand to addCNodeMethod
UserFuncs == {Val("function", "meth", <<"u">>), Val("property", "ignore_cast", <<"u">>)}
FuncNames == {"None", "meth", "lvar"}

(***************************** class arena *********************************)
Class(name, bases, attr) == [name |-> name, bases |-> bases, attr |-> attr]

cObject == 1
cAbstractCItem == 2
cHxCItem == 3
cHxCExpr == 4
cHxCStmt == 5
cCNode == 6
cCNodeExpr == 7
cCNodeStmt == 8
NoClass == 0

SrcAttrs(name, mod) ==
    [NoAttrs EXCEPT !["__module__"] = Val("str", mod, <<>>),
                    !["__doc__"] = Val("doc", "", name),
                    !["meth"] = Val("function", "meth", name)]

CNodeAttrs(name, icast) ==
    [NoAttrs EXCEPT !["__module__"] = Val("str", "cnode", <<>>),
                    !["__doc__"] = Val("doc", "", name),
                    !["ignore_cast"] = icast]

\* the classes that exist once cnode.py is imported
BaseArena ==
    << Class(sObject, <<>>, NoAttrs),
       Class(sAbstractCItem, <<cObject>>, SrcAttrs(sAbstractCItem, "astnode")),
       Class(sHxC \o sItem, <<cAbstractCItem>>, SrcAttrs(sHxC \o sItem, "hx_citem")),
       Class(sHxC \o sExpr, <<cHxCItem>>, SrcAttrs(sHxC \o sExpr, "hx_citem")),
       Class(sHxC \o sStmt, <<cHxCItem>>, SrcAttrs(sHxC \o sStmt, "hx_citem")),
       Class(sCNode, <<cAbstractCItem>>, CNodeAttrs(sCNode, fn_ignore_cast_default)),
       Class(sCNode \o sExpr, <<cCNode>>, CNodeAttrs(sCNode \o sExpr, Absent)),
       Class(sCNode \o sStmt, <<cCNode>>, CNodeAttrs(sCNode \o sStmt, Absent)) >>

NumBase == Len(BaseArena)

\* the classes buildCNode is applied to: the k-th one is classes[NumBase + k]
RECURSIVE Xs(_)
Xs(n) == IF n = 0 THEN <<>> ELSE <<"X">> \o Xs(n - 1)

UserName(k) ==
    IF k = 1 THEN sHxC \o sExpr \o sCast
    ELSE IF k = 2 THEN sHxC \o sExpr \o sVar
    ELSE sHxC \o sExpr \o Xs(k)

UserIdx == (NumBase + 1) .. (NumBase + NumUser)
SrcClasses == (cObject .. cHxCStmt) \cup UserIdx

Range(s) == {s[i] : i \in DOMAIN s}

RECURSIVE Ancestors(_, _)
Ancestors(cs, c) ==
    UNION {{cs[c].bases[i]} \cup Ancestors(cs, cs[c].bases[i]) : i \in DOMAIN cs[c].bases}

IsSubclass(cs, c, d) == c = d \/ d \in Ancestors(cs, c)

\* cl.__subclasses__(): the direct subclasses
Subclasses(cs, cl) == {d \in DOMAIN cs : cl \in Range(cs[d].bases)}

Descendants(cs, cl) == {d \in DOMAIN cs : cl \in Ancestors(cs, d)}

\* the class object buildCNode creates for the class cls (a fresh object)
GenId(cls) == NumBase + NumUser + cls

BaseSeqs(S) == UNION {[1 .. n -> S] : n \in 1 .. MaxBases}

\* a class statement accepts the base list: no duplicate, no base that is
\* an ancestor of another one (such lists have a consistent MRO)
ValidBases(cs, bs) ==
    /\ \A i, j \in DOMAIN bs : i # j => bs[i] # bs[j]
    /\ \A i, j \in DOMAIN bs : i # j => ~ IsSubclass(cs, bs[i], bs[j])

RECURSIVE UserArenas(_)
UserArenas(k) ==
    IF k = 0 THEN {BaseArena}
    ELSE {Append(cs, Class(UserName(k), bs, SrcAttrs(UserName(k), "hx_cexpr"))) :
             <<cs, bs>> \in {p \in UserArenas(k - 1) \X BaseSeqs((cObject .. cHxCStmt) \cup ((NumBase + 1) .. (NumBase + k - 1))) :
                                ValidBases(p[1], p[2])}}

(***************************** module state ********************************)
Ops == {"cot_cast", "cot_var"}
BADADDR == 2147483647
NoneEa == -1
EAs == {BADADDR, 16, 32}
Citems == [op : Ops, ea : EAs]
HxCFuncs == {"f1", "f2"}
NoCitem == [op |-> "", ea |-> 0]

Ret(call, exc, val, self) ==
    [call |-> call, exc |-> exc, val |-> val, self |-> self,
     citem |-> NoCitem, hx |-> "", par |-> 0]

RetNode(call, exc, val, self, citem, hx, par) ==
    [call |-> call, exc |-> exc, val |-> val, self |-> self,
     citem |-> citem, hx |-> hx, par |-> par]

\* _citem2cnode, _cnodeMethods and the module globals after import
Init_citem2cnode == (cHxCItem :> cCNode) @@ (cHxCExpr :> cCNodeExpr) @@ (cHxCStmt :> cCNodeStmt)

Init_cnodeMethods ==
    ((sCNode \o sExpr \o sVar) :> << <<"lvar", fn_lvar>>, <<"lvar_name", fn_lvar_name>> >>)
    @@ ((sCNode \o sExpr \o sCast) :> << <<"ignore_cast", fn_ignore_cast>> >>)

InitGlobals ==
    [n \in {BaseArena[c].name : c \in cAbstractCItem .. cCNodeStmt} |->
        CHOOSE c \in cAbstractCItem .. cCNodeStmt : BaseArena[c].name = n]

\* the classes GetCNode can ever ask: CNode's subclasses, built or not yet
Askable == {cCNodeExpr, cCNodeStmt} \cup {GenId(c) : c \in UserIdx}

\* every class answers is_handling_type for its own TYPE_HANDLE only
OwnHandles == [op \in Ops |-> IF op = "cot_cast" THEN {GenId(NumBase + 1)} ELSE {GenId(NumBase + 2)}]

Init ==
    /\ classes \in UserArenas(NumUser)
    /\ _citem2cnode = Init_citem2cnode
    /\ _cnodeMethods = Init_cnodeMethods
    /\ globals = InitGlobals
    /\ handles = OwnHandles
    /\ nodes = <<>>
    /\ created = <<>>
    /\ ret = Ret("import", "none", 0, 0)

(***************************** addCNodeMethod ******************************)
RECURSIVE SumLen(_, _)
SumLen(m, ks) ==
    IF ks = {} THEN 0
    ELSE LET k == CHOOSE x \in ks : TRUE IN Len(m[k]) + SumLen(m, ks \ {k})

NumRegistered == SumLen(_cnodeMethods, DOMAIN _cnodeMethods)

RegNames == {Replace(classes[c].name, sHxC, sCNode) : c \in UserIdx}

\* _internal_addcnodemeth: the name the function is registered under
FnName(func_name, func) == IF func_name = "None" THEN func.s ELSE func_name

addCNodeMethod(cnode_name, func_name, func) ==
    /\ NumRegistered < SumLen(Init_cnodeMethods, DOMAIN Init_cnodeMethods) + MaxReg
    /\ LET m == IF cnode_name \in DOMAIN _cnodeMethods
                THEN _cnodeMethods
                ELSE _cnodeMethods @@ (cnode_name :> <<>>)
       IN _cnodeMethods' = [m EXCEPT ![cnode_name] = Append(@, <<FnName(func_name, func), func>>)]
    /\ ret' = Ret("addCNodeMethod", "none", 0, 0)
    /\ UNCHANGED <<classes, _citem2cnode, globals, handles, nodes, created>>

(***************************** buildCNode **********************************)
\* buildCNode adding a registered method only where the name is still free
RECURSIVE ApplyMethods_KeepFirst(_, _)
ApplyMethods_KeepFirst(attr, ms) ==
    IF ms = <<>> THEN attr
    ELSE ApplyMethods_KeepFirst(
             IF attr[Head(ms)[1]] = Absent THEN [attr EXCEPT ![Head(ms)[1]] = Head(ms)[2]] ELSE attr,
             Tail(ms))

RECURSIVE ApplyMethods(_, _)
ApplyMethods(attr, ms) ==
    IF ms = <<>> THEN attr
    ELSE ApplyMethods([attr EXCEPT ![Head(ms)[1]] = Head(ms)[2]], Tail(ms))

\* type(name, bases, attr): a class without bases derives from object
TypeNew(name, bases, attr) ==
    Class(name, IF bases = <<>> THEN <<cObject>> ELSE bases, attr)

\* buildCNode without its first check
BuildFails_NoDupCheck(cs, reg, cls) ==
    \E i \in DOMAIN cs[cls].bases : cs[cls].bases[i] \notin DOMAIN reg

BuildFails(cs, reg, cls) ==
    \/ cls \in DOMAIN reg
    \/ \E i \in DOMAIN cs[cls].bases : cs[cls].bases[i] \notin DOMAIN reg

BuildAttr(cs, meths, cls, cn_cls_nm) ==
    LET attr == [cs[cls].attr EXCEPT
                    !["__module__"] = Val("str", "cnode", <<>>),
                    !["__doc__"] = Val("gendoc", "", cs[cls].name)]
    IN IF cn_cls_nm \in DOMAIN meths
       THEN ApplyMethods(attr, meths[cn_cls_nm])
       ELSE attr

BuildClass(cs, reg, meths, cls) ==
    LET lb == [i \in DOMAIN cs[cls].bases |-> reg[cs[cls].bases[i]]]
        cn_cls_nm == Replace(cs[cls].name, sHxC, sCNode)
    IN TypeNew(cn_cls_nm, lb, BuildAttr(cs, meths, cls, cn_cls_nm))

\* buildCNode binding the generated class under the HxC name as well
SetGlobal_AlsoSource(gl, name, v) ==
    [n \in DOMAIN gl \cup {name, Replace(name, sCNode, sHxC)} |->
        IF n \in {name, Replace(name, sCNode, sHxC)} THEN v ELSE gl[n]]

SetGlobal(gl, name, v) == [n \in DOMAIN gl \cup {name} |-> IF n = name THEN v ELSE gl[n]]

buildCNode(cls) ==
    IF BuildFails(classes, _citem2cnode, cls)
    THEN /\ ret' = Ret("buildCNode", "AssertionError", 0, cls)
         /\ UNCHANGED <<classes, _citem2cnode, _cnodeMethods, globals, handles, nodes, created>>
    ELSE LET cn_cls == BuildClass(classes, _citem2cnode, _cnodeMethods, cls)
         IN /\ classes' = classes @@ (GenId(cls) :> cn_cls)
            /\ globals' = SetGlobal(globals, cn_cls.name, GenId(cls))
            /\ _citem2cnode' = _citem2cnode @@ (cls :> GenId(cls))
            /\ ret' = Ret("buildCNode", "none", cls, cls)
            /\ UNCHANGED <<_cnodeMethods, handles, nodes, created>>

NextBuild ==
    \E cls \in SrcClasses : buildCNode(cls)

Spec == Init /\ [][NextBuild]_vars

(***************************** decorated modules ***************************)
\* the hierarchies the node and decorator specifications start from: every
\* decorated class derives from HxCExpr or from the class decorated before it
ChainArenas ==
    {cs \in UserArenas(NumUser) :
        \A c \in UserIdx : cs[c].bases = <<cHxCExpr>> \/ (c > NumBase + 1 /\ cs[c].bases = <<c - 1>>)}

InitMeth == Init /\ classes \in ChainArenas

NextMeth ==
    \/ \E cnode_name \in RegNames, func_name \in FuncNames, func \in UserFuncs :
          addCNodeMethod(cnode_name, func_name, func)
    \/ \E cls \in UserIdx : buildCNode(cls)

SpecMeth == InitMeth /\ [][NextMeth]_vars

\* the module state once every decorated class from k on went through
\* @buildCNode, in definition order
RECURSIVE BuildAll(_, _)
BuildAll(st, k) ==
    IF k > NumUser THEN st
    ELSE LET cls == NumBase + k
             cn_cls == BuildClass(st.classes, st.reg, Init_cnodeMethods, cls)
         IN BuildAll([classes |-> st.classes @@ (GenId(cls) :> cn_cls),
                      reg |-> st.reg @@ (cls :> GenId(cls)),
                      globals |-> SetGlobal(st.globals, cn_cls.name, GenId(cls))], k + 1)

Imported(cs) == BuildAll([classes |-> cs, reg |-> Init_citem2cnode, globals |-> InitGlobals], 1)

(***************************** CNode objects *******************************)
\* CNode.__init__ (through CNodeExpr.__init__ / CNodeStmt.__init__)
Node(cl, citem, hxcfunc, parent) ==
    [cls |-> cl, citem |-> citem, hxcfunc |-> hxcfunc, parent |-> parent]

IsHandlingType(cl, op) == cl \in handles[op]

\* GetCNode never looking below the direct subclasses of CNode
RECURSIVE GetCNodeLoop_NoDescend(_, _, _, _)
GetCNodeLoop_NoDescend(cs, op, todo, done) ==
    IF todo = {} THEN {NoClass}
    ELSE UNION {IF cl \in done THEN GetCNodeLoop_NoDescend(cs, op, todo \ {cl}, done)
                ELSE IF IsHandlingType(cl, op) THEN {cl}
                ELSE GetCNodeLoop_NoDescend(cs, op, todo \ {cl}, done \cup {cl})
                : cl \in todo}

\* the while loop of GetCNode; set.pop() may take any element, so the result
\* is the set of classes the loop can return (NoClass: the loop ran out)
RECURSIVE GetCNodeLoop(_, _, _, _)
GetCNodeLoop(cs, op, todo, done) ==
    IF todo = {} THEN {NoClass}
    ELSE UNION {IF cl \in done THEN GetCNodeLoop(cs, op, todo \ {cl}, done)
                ELSE IF IsHandlingType(cl, op) THEN {cl}
                ELSE GetCNodeLoop(cs, op, (todo \ {cl}) \cup Subclasses(cs, cl), done \cup {cl})
                : cl \in todo}

\* GetCNode starting its search at CNode itself
GetCNodeClasses_FromCNode(citem) ==
    GetCNodeLoop(classes, citem.op, {globals[sCNode]}, {})

GetCNodeClasses(citem) ==
    GetCNodeLoop(classes, citem.op, Subclasses(classes, globals[sCNode]), {})

Created(call, self, hxcfunc, parent) ==
    [call |-> call, self |-> self, hxcfunc |-> hxcfunc, parent |-> parent]

GetCNodeCall(call, self, citem, hxcfunc, parent) ==
    \E cl \in GetCNodeClasses(citem) :
        IF cl = NoClass
        THEN /\ ret' = RetNode(call, "ValueError", 0, self, citem, hxcfunc, parent)
             /\ UNCHANGED <<classes, _citem2cnode, _cnodeMethods, globals, handles, nodes, created>>
        ELSE /\ Len(nodes) < MaxNodes
             /\ nodes' = Append(nodes, Node(cl, citem, hxcfunc, parent))
             /\ created' = Append(created, Created(call, self, hxcfunc, parent))
             /\ ret' = RetNode(call, "none", Len(nodes) + 1, self, citem, hxcfunc, parent)
             /\ UNCHANGED <<classes, _citem2cnode, _cnodeMethods, globals, handles>>

GetCNode(citem, hxcfunc, parent) == GetCNodeCall("GetCNode", 0, citem, hxcfunc, parent)

\* _createChild handing on its own parent instead of itself
_createChild_Sibling(self, citem) ==
    GetCNodeCall("_createChild", self, citem, nodes[self].hxcfunc, nodes[self].parent)

_createChild(self, citem) == GetCNodeCall("_createChild", self, citem, nodes[self].hxcfunc, self)

(***************************** dispatch ************************************)
\* one op, whose handling classes are arbitrary
DispatchCitems == {c \in Citems : c.op = "cot_cast" /\ c.ea = 16}

InitDispatch ==
    /\ \E cs \in ChainArenas :
          /\ classes = Imported(cs).classes
          /\ _citem2cnode = Imported(cs).reg
          /\ globals = Imported(cs).globals
    /\ _cnodeMethods = Init_cnodeMethods
    /\ handles \in {h \in [Ops -> SUBSET (Askable \cup {cCNode})] :
                        h["cot_var"] = OwnHandles["cot_var"] /\ Cardinality(h["cot_cast"]) <= 2}
    /\ nodes = <<>>
    /\ created = <<>>
    /\ ret = Ret("import", "none", 0, 0)

\* a caller wraps an item as a root, or below the node it made last
NextDispatch ==
    \E citem \in DispatchCitems, hxcfunc \in HxCFuncs, par \in {0, Len(nodes)} :
        GetCNode(citem, hxcfunc, par)

SpecDispatch == InitDispatch /\ [][NextDispatch]_vars

(***************************** node properties *****************************)
\* AbstractCItem.ea reads the address of the wrapped item
Ea(ns, n) == ns[n].citem.ea

has_parent(n) == nodes[n].parent # 0

\* parent returning the node itself
parent_ReturnsSelf(n) ==
    IF nodes[n].parent = 0
    THEN [exc |-> "RuntimeError", val |-> 0]
    ELSE [exc |-> "none", val |-> n]

parent(n) ==
    IF nodes[n].parent = 0
    THEN [exc |-> "RuntimeError", val |-> 0]
    ELSE [exc |-> "none", val |-> nodes[n].parent]

cfunc(n) == nodes[n].hxcfunc

\* closest_ea with an if in place of the while
ClosestEaLoop_OneStep(ns, ea, obj) ==
    LET ea1 == IF ea = BADADDR /\ obj # 0 THEN Ea(ns, obj) ELSE ea
    IN IF ea1 = BADADDR THEN NoneEa ELSE ea1

\* the while loop of closest_ea and the return after it
RECURSIVE ClosestEaLoop(_, _, _)
ClosestEaLoop(ns, ea, obj) ==
    IF ea = BADADDR /\ obj # 0
    THEN ClosestEaLoop(ns, Ea(ns, obj), ns[obj].parent)
    ELSE IF ea = BADADDR THEN NoneEa ELSE ea

closest_ea(n) == ClosestEaLoop(nodes, Ea(nodes, n), nodes[n].parent)

Bool(b) == IF b THEN 1 ELSE 0

ReadHasParent(n) ==
    /\ ret' = Ret("has_parent", "none", Bool(has_parent(n)), n)
    /\ UNCHANGED <<classes, _citem2cnode, _cnodeMethods, globals, handles, nodes, created>>

ReadParent(n) ==
    /\ ret' = Ret("parent", parent(n).exc, parent(n).val, n)
    /\ UNCHANGED <<classes, _citem2cnode, _cnodeMethods, globals, handles, nodes, created>>

ReadClosestEa(n) ==
    /\ ret' = Ret("closest_ea", "none", closest_ea(n), n)
    /\ UNCHANGED <<classes, _citem2cnode, _cnodeMethods, globals, handles, nodes, created>>

(***************************** ignore_cast *********************************)
\* attribute lookup on a class: the first class of the method resolution
\* order that defines the attribute
RECURSIVE KeepLast(_)
KeepLast(s) ==
    IF s = <<>> THEN <<>>
    ELSE IF Head(s) \in Range(Tail(s)) THEN KeepLast(Tail(s))
         ELSE <<Head(s)>> \o KeepLast(Tail(s))

RECURSIVE MroOfBases(_, _)
Mro(cs, c) == KeepLast(<<c>> \o MroOfBases(cs, cs[c].bases))
MroOfBases(cs, bs) ==
    IF bs = <<>> THEN <<>> ELSE Mro(cs, Head(bs)) \o MroOfBases(cs, Tail(bs))

RECURSIVE LookupIn(_, _, _)
LookupIn(cs, mro, a) ==
    IF mro = <<>> THEN Absent
    ELSE IF cs[Head(mro)].attr[a] # Absent THEN cs[Head(mro)].attr[a]
         ELSE LookupIn(cs, Tail(mro), a)

Lookup(cs, c, a) == LookupIn(cs, Mro(cs, c), a)

\* self.operand of a cast node: the child node _createChild makes for the
\* item x under the cast, of the class cl GetCNode picks for it
operand(ns, cr, cur, x, cl) ==
    [nodes |-> Append(ns, Node(cl, x, ns[cur].hxcfunc, cur)),
     created |-> Append(cr, Created("operand", cur, ns[cur].hxcfunc, cur)),
     val |-> Len(ns) + 1]

\* the cast's ignore_cast returning self.operand
IgnoreCastRun_Operand(ns, cr, cur, X) ==
    LET impl == Lookup(classes, ns[cur].cls, "ignore_cast") IN
    IF impl = fn_ignore_cast_default
    THEN {[nodes |-> ns, created |-> cr, exc |-> "none", val |-> cur]}
    ELSE IF impl = fn_ignore_cast
    THEN UNION {IF cl = NoClass
                THEN {[nodes |-> ns, created |-> cr, exc |-> "ValueError", val |-> 0]}
                ELSE IF Len(ns) >= MaxNodes THEN {}
                ELSE LET o == operand(ns, cr, cur, x, cl)
                     IN {[nodes |-> o.nodes, created |-> o.created, exc |-> "none", val |-> o.val]}
                : <<x, cl>> \in UNION {{x} \X GetCNodeClasses(x) : x \in X}}
    ELSE {}

\* node.ignore_cast: CNode.ignore_cast returns self, the property added to
\* CNodeExprCast returns self.operand.ignore_cast, for any item of X under
\* the cast.  The result is the set of outcomes (GetCNode may raise).
RECURSIVE IgnoreCastRun(_, _, _, _)
IgnoreCastRun(ns, cr, cur, X) ==
    LET impl == Lookup(classes, ns[cur].cls, "ignore_cast") IN
    IF impl = fn_ignore_cast_default
    THEN {[nodes |-> ns, created |-> cr, exc |-> "none", val |-> cur]}
    ELSE IF impl = fn_ignore_cast
    THEN UNION {IF cl = NoClass
                THEN {[nodes |-> ns, created |-> cr, exc |-> "ValueError", val |-> 0]}
                ELSE IF Len(ns) >= MaxNodes THEN {}
                ELSE LET o == operand(ns, cr, cur, x, cl)
                     IN IgnoreCastRun(o.nodes, o.created, o.val, X)
                : <<x, cl>> \in UNION {{x} \X GetCNodeClasses(x) : x \in X}}
    ELSE {}

ReadIgnoreCast(n, X) ==
    \E o \in IgnoreCastRun(nodes, created, n, X) :
        /\ nodes' = o.nodes
        /\ created' = o.created
        /\ ret' = Ret("ignore_cast", o.exc, o.val, n)
        /\ UNCHANGED <<classes, _citem2cnode, _cnodeMethods, globals, handles>>

(***************************** node specifications *************************)
InitTree ==
    /\ \E cs \in ChainArenas :
          /\ classes = Imported(cs).classes
          /\ _citem2cnode = Imported(cs).reg
          /\ globals = Imported(cs).globals
    /\ _cnodeMethods = Init_cnodeMethods
    /\ handles = OwnHandles
    /\ nodes = <<>>
    /\ created = <<>>
    /\ ret = Ret("import", "none", 0, 0)

\* parent, has_parent and cfunc: nodes of two functions, made by GetCNode
\* with any parent and by _createChild
ParentCitems == {c \in Citems : c.op = "cot_var" /\ c.ea = 16}

NextParent ==
    \/ \E citem \in ParentCitems, hxcfunc \in HxCFuncs, par \in {0} \cup DOMAIN nodes :
          GetCNode(citem, hxcfunc, par)
    \/ \E self \in DOMAIN nodes, citem \in ParentCitems : _createChild(self, citem)
    \/ \E n \in DOMAIN nodes : ReadHasParent(n)
    \/ \E n \in DOMAIN nodes : ReadParent(n)

SpecParent == InitTree /\ [][NextParent]_vars

\* closest_ea: items with and without an address
EaCitems == {c \in Citems : c.op = "cot_var"}

NextEa ==
    \/ \E citem \in EaCitems : GetCNode(citem, "f1", 0)
    \/ \E self \in DOMAIN nodes, citem \in EaCitems : _createChild(self, citem)
    \/ \E n \in DOMAIN nodes : ReadClosestEa(n)

SpecEa == InitTree /\ [][NextEa]_vars

\* ignore_cast: casts and variables
CastCitems == {c \in Citems : c.ea = 16}

NextCast ==
    \/ \E citem \in CastCitems : GetCNode(citem, "f1", 0)
    \/ \E self \in DOMAIN nodes, citem \in CastCitems : _createChild(self, citem)
    \/ \E n \in DOMAIN nodes : ReadIgnoreCast(n, CastCitems)

SpecCast == InitTree /\ [][NextCast]_vars

(***************************** claims: buildCNode ***************************)
InitialSources == {cHxCItem, cHxCExpr, cHxCStmt}

BuiltSources == DOMAIN _citem2cnode \ InitialSources

Images(cs, reg, cls) == [i \in DOMAIN cs[cls].bases |-> reg[cs[cls].bases[i]]]

\* C4: after any sequence of successful buildCNode calls the registry mirrors
\* the source hierarchy: the class generated for a class C carries C's name
\* with HxC replaced by CNode, its bases are the registry images of C's bases
\* in the same order, subclass relations between registered classes carry over
\* to their images, and every generated class is a subclass of CNode.
C4_RegistryMirrorsHierarchy ==
    /\ \A C \in BuiltSources :
          /\ classes[_citem2cnode[C]].name = Replace(classes[C].name, sHxC, sCNode)
          /\ classes[_citem2cnode[C]].bases = Images(classes, _citem2cnode, C)
          /\ IsSubclass(classes, _citem2cnode[C], cCNode)
    /\ \A C, D \in DOMAIN _citem2cnode :
          IsSubclass(classes, C, D) => IsSubclass(classes, _citem2cnode[C], _citem2cnode[D])

\* C5: buildCNode(cls) raises AssertionError exactly when cls is already a key
\* of _citem2cnode or one of its direct bases is not a key; otherwise it
\* succeeds and registers cls.
C5_BuildRaisesIff ==
    [][ret'.call = "buildCNode" =>
          LET cls == ret'.self IN
          /\ ret'.exc \in {"none", "AssertionError"}
          /\ (ret'.exc = "AssertionError") <=>
                (\/ cls \in DOMAIN _citem2cnode
                 \/ \E b \in Range(classes[cls].bases) : b \notin DOMAIN _citem2cnode)
          /\ ret'.exc = "none" =>
                /\ cls \notin DOMAIN _citem2cnode
                /\ cls \in DOMAIN _citem2cnode'
                /\ _citem2cnode'[cls] \in DOMAIN classes' \ DOMAIN classes
          /\ ret'.exc = "AssertionError" => _citem2cnode' = _citem2cnode
       ]_vars

\* a class was refused because a base of it is not registered yet, and
\* another one was built
C5_Witness ==
    /\ ret.call = "buildCNode"
    /\ ret.exc = "AssertionError"
    /\ ret.self \in UserIdx
    /\ ret.self \notin DOMAIN _citem2cnode
    /\ \E c \in UserIdx : c \in DOMAIN _citem2cnode

Registered(ms, a) == {i \in DOMAIN ms : ms[i][1] = a}

Max(S) == CHOOSE x \in S : \A y \in S : y <= x

MethodsFor(meths, name) == IF name \in DOMAIN meths THEN meths[name] ELSE <<>>

\* C6: the class buildCNode generates has, under every name registered for it
\* by addCNodeMethod before, the function registered last under that name,
\* also where the source class has an attribute of that name; every other
\* attribute but __module__ and __doc__ equals the source class's.
C6_RegisteredMethods ==
    [][(ret'.call = "buildCNode" /\ ret'.exc = "none") =>
          LET cls == ret'.self
              gen == classes'[_citem2cnode'[cls]]
              ms == MethodsFor(_cnodeMethods, gen.name)
          IN \A a \in AttrNames :
                IF Registered(ms, a) # {}
                THEN gen.attr[a] = ms[Max(Registered(ms, a))][2]
                ELSE a \notin {"__module__", "__doc__"} => gen.attr[a] = classes[cls].attr[a]
       ]_vars

\* CNodeExprCast was generated after a function was registered under the
\* name of an attribute HxCExprCast has: the registered one is there, next to
\* the property registered at import and the attributes copied
C6_Witness ==
    /\ ret.call = "buildCNode"
    /\ ret.exc = "none"
    /\ ret.self = NumBase + 1
    /\ \E i \in DOMAIN _cnodeMethods[sCNode \o sExpr \o sCast] :
          _cnodeMethods[sCNode \o sExpr \o sCast][i] = <<"meth", Val("function", "meth", <<"u">>)>>
    /\ classes[GenId(NumBase + 1)].attr["meth"] = Val("function", "meth", <<"u">>)
    /\ classes[NumBase + 1].attr["meth"] # Val("function", "meth", <<"u">>)
    /\ classes[GenId(NumBase + 1)].attr["ignore_cast"] = fn_ignore_cast

(***************************** claims: GetCNode *****************************)
\* C1: when GetCNode(citem, hxcfunc, parent) returns, the node's class is a
\* strict subclass of CNode that handles citem.op, its cfunc is the given
\* hxcfunc and its _parent the given parent (None allowed).
C1_GetCNodeResult ==
    (ret.call = "GetCNode" /\ ret.exc = "none") =>
        /\ ret.val \in DOMAIN nodes
        /\ nodes[ret.val].cls \in Descendants(classes, globals[sCNode])
        /\ IsHandlingType(nodes[ret.val].cls, ret.citem.op)
        /\ nodes[ret.val].citem = ret.citem
        /\ cfunc(ret.val) = ret.hx
        /\ nodes[ret.val].parent = ret.par

\* a node of a class two levels below CNode, made under a parent that
\* belongs to another function
C1_Witness ==
    /\ ret.call = "GetCNode"
    /\ ret.exc = "none"
    /\ ret.par # 0
    /\ nodes[ret.par].hxcfunc # ret.hx
    /\ nodes[ret.val].cls \in Descendants(classes, cCNodeExpr)

\* C2: GetCNode raises ValueError exactly when no direct or transitive
\* subclass of CNode handles citem.op; with a handling subclass at any depth
\* it returns a node.
C2_ValueErrorIff ==
    ret.call = "GetCNode" =>
        /\ ret.exc \in {"none", "ValueError"}
        /\ (ret.exc = "ValueError") <=>
              (\A cl \in Descendants(classes, globals[sCNode]) : ~ IsHandlingType(cl, ret.citem.op))

\* the only handling class is a subclass of a generated class, three levels
\* below CNode, and GetCNode found it
C2_Witness ==
    /\ ret.call = "GetCNode"
    /\ ret.exc = "none"
    /\ nodes[ret.val].cls \in Descendants(classes, GenId(NumBase + 1))
    /\ \A cl \in Ancestors(classes, nodes[ret.val].cls) : ~ IsHandlingType(cl, ret.citem.op)

(***************************** claims: parent *******************************)
\* C3: reading parent raises RuntimeError exactly for a node created with
\* parent None and otherwise returns the parent the node was created with;
\* has_parent is true exactly when reading parent does not raise.
C3_ParentRaisesIffRoot ==
    /\ ret.call = "parent" =>
          /\ ret.exc \in {"none", "RuntimeError"}
          /\ (ret.exc = "RuntimeError") <=> (created[ret.self].parent = 0)
          /\ ret.exc = "none" => ret.val = created[ret.self].parent
    /\ ret.call = "has_parent" =>
          ((ret.val = 1) <=> (parent(ret.self).exc = "none"))

C3_Witness ==
    /\ ret.call = "parent"
    /\ ret.exc = "none"
    /\ ret.val \in DOMAIN nodes
    /\ created[ret.self].call = "_createChild"
    /\ \E r \in DOMAIN nodes : ~ has_parent(r)

\* the nodes met following _parent from n, at most fuel of them
RECURSIVE WalkUp(_, _, _)
WalkUp(ns, n, fuel) ==
    IF n = 0 \/ fuel = 0 THEN <<>> ELSE <<n>> \o WalkUp(ns, ns[n].parent, fuel - 1)

\* the root n was obtained from by _createChild calls alone (0: there is none)
RECURSIVE MadeFrom(_, _, _)
MadeFrom(cr, n, fuel) ==
    IF fuel = 0 THEN 0
    ELSE IF cr[n].call = "_createChild" THEN MadeFrom(cr, cr[n].self, fuel - 1)
    ELSE IF cr[n].call = "GetCNode" /\ cr[n].parent = 0 THEN n
    ELSE 0

\* C10: for a node obtained from a root by a chain of _createChild calls, the
\* parent is the node _createChild was called on, the cfunc is the root's,
\* and following parent reaches the root without meeting a node twice.
C10_CreateChildTree ==
    \A n \in DOMAIN nodes :
        LET root == MadeFrom(created, n, Len(nodes))
            up == WalkUp(nodes, n, Len(nodes))
        IN root # 0 =>
            /\ created[n].call = "_createChild" => parent(n) = [exc |-> "none", val |-> created[n].self]
            /\ cfunc(n) = cfunc(root)
            /\ up[Len(up)] = root
            /\ ~ has_parent(root)
            /\ Cardinality(Range(up)) = Len(up)

\* a grandchild, next to a node GetCNode made under a parent of another
\* function
C10_Witness ==
    \E n \in DOMAIN nodes :
        /\ created[n].call = "_createChild"
        /\ created[created[n].self].call = "_createChild"
        /\ MadeFrom(created, n, Len(nodes)) # 0
        /\ nodes[nodes[n].parent].parent = MadeFrom(created, n, Len(nodes))

(***************************** claims: closest_ea ***************************)
Min(S) == CHOOSE x \in S : \A y \in S : x <= y

\* C7: closest_ea is the ea of the nearest node of the chain node, parent,
\* grandparent, ... whose ea is not BADADDR; it is None exactly when every
\* node of the chain has ea BADADDR; it is never BADADDR and never raises.
C7_ClosestEa ==
    ret.call = "closest_ea" =>
        LET up == WalkUp(nodes, ret.self, Len(nodes))
            good == {i \in DOMAIN up : Ea(nodes, up[i]) # BADADDR}
        IN /\ ret.exc = "none"
           /\ ret.val # BADADDR
           /\ (ret.val = NoneEa) <=> (good = {})
           /\ good # {} => ret.val = Ea(nodes, up[Min(good)])

\* the node and its parent have no address, the grandparent has one
C7_Witness ==
    /\ ret.call = "closest_ea"
    /\ Ea(nodes, ret.self) = BADADDR
    /\ has_parent(ret.self)
    /\ Ea(nodes, nodes[ret.self].parent) = BADADDR
    /\ has_parent(nodes[ret.self].parent)
    /\ ret.val = Ea(nodes, nodes[nodes[ret.self].parent].parent)
    /\ ret.val # BADADDR

(***************************** claims: ignore_cast **************************)
\* isinstance(node, CNodeExprCast)
IsCast(n) ==
    /\ (sCNode \o sExpr \o sCast) \in DOMAIN globals
    /\ IsSubclass(classes, nodes[n].cls, globals[sCNode \o sExpr \o sCast])

\* C8: ignore_cast returns a node that is not a cast: the node itself when it
\* is not a CNodeExprCast, otherwise the first non-cast node reached by
\* taking the operand of the cast again and again.
C8_IgnoreCast ==
    (ret.call = "ignore_cast" /\ ret.exc = "none") =>
        LET up == WalkUp(nodes, ret.val, Len(nodes)) IN
        /\ ~ IsCast(ret.val)
        /\ ~ IsCast(ret.self) => ret.val = ret.self
        /\ IsCast(ret.self) =>
              \E k \in 2 .. Len(up) :
                  /\ up[k] = ret.self
                  /\ \A j \in 2 .. k : IsCast(up[j])
                  /\ \A j \in 1 .. (k - 1) :
                        created[up[j]].call = "operand" /\ created[up[j]].self = up[j + 1]

\* a cast of a cast of a variable
C8_Witness ==
    /\ ret.call = "ignore_cast"
    /\ ret.exc = "none"
    /\ IsCast(ret.self)
    /\ ~ IsCast(ret.val)
    /\ has_parent(ret.val)
    /\ nodes[nodes[ret.val].parent].parent = ret.self

TypeOK ==
    /\ DOMAIN _citem2cnode \subseteq SrcClasses
    /\ \A c \in DOMAIN _citem2cnode : _citem2cnode[c] \in DOMAIN classes
    /\ \A n \in DOMAIN nodes : nodes[n].cls \in DOMAIN classes

====
